---- MODULE Spec2Model ----
(***************************************************************************)
(* The gpg command line wrapper of gopass (gpg/cli/gpg.go): the two key    *)
(* caches of a GPG instance, the listing, search, import, export and       *)
(* recipient extraction operations, and the external gpg process and file  *)
(* system they drive.                                                       *)
(*                                                                         *)
(* Text is modelled at the granularity the code inspects it.  Listing      *)
(* output is a sequence of lines, a line a sequence of colon separated     *)
(* fields, a field a sequence of words.  Packet dump output is a sequence  *)
(* of lines, a line a sequence of symbols: the separators " ", TAB, ":",   *)
(* "=", "," and the maximal runs of other characters between them.         *)
(***************************************************************************)
EXTENDS Integers, Sequences, FiniteSets, TLC

\* Bounds of the model.
MaxLines == 3
MaxTerms == 2
MaxImports == 2
NThreads == 2

VARIABLES
    pubring,    \* gpg's public keyring: the set of key ids in it
    secring,    \* gpg's secret keyring
    files,      \* the file system: path -> [exists, data]
    packets,    \* what gpg --list-packets prints for the inspected file, and its exit status
    pubKeys,    \* GPG.pubKeys
    privKeys,   \* GPG.privKeys
    last,       \* the last completed call: its operation, what gpg did, what it returned
    th,         \* concurrent callers: each one's position and locals
    hist        \* history: imports run, imports returned, the import each slot's listing saw

vars == <<pubring, secring, files, packets, pubKeys, privKeys, last, th, hist>>

----------------------------------------------------------------------------
\* Go values

\* error values
NoErr == "nil"
ExitErr == "exit status 2"

\* a gpg.KeyList: a Go slice, nil or not, and its elements
NilKeyList == [nil |-> TRUE, keys |-> <<>>]
EmptyKeyList == [nil |-> FALSE, keys |-> <<>>]
MkKeyList(keys) == [nil |-> FALSE, keys |-> keys]

RECURSIVE SeqsUpTo(_, _)
SeqsUpTo(S, n) ==
    IF n = 0 THEN {<<>>}
    ELSE LET shorter == SeqsUpTo(S, n - 1)
         IN  shorter \cup {Append(s, x) : s \in {t \in shorter : Len(t) = n - 1}, x \in S}

\* bytes.Contains over one field: needle occurs as a contiguous run of words
ContainsWords(field, needle) ==
    \E i \in 1..(Len(field) - Len(needle) + 1) :
        SubSeq(field, i, i + Len(needle) - 1) = needle

----------------------------------------------------------------------------
\* The external gpg process: key listing

Keys == {"K1", "K2"}
KeyOrder == <<"K1", "K2">>
\* search terms: a key id of the model and one that matches nothing
Terms == {"K2", "K9"}

\* the user id of each key; K2's owner chose a user id that reads like a gpg message
UserID(k) == IF k = "K1" THEN <<"Alice">> ELSE <<"secret", "key", "not", "available">>
Fingerprint(k) == IF k = "K1" THEN "FPR1" ELSE "FPR2"
SubKeyID(k) == IF k = "K1" THEN "S1" ELSE "S2"
SubFingerprint(k) == IF k = "K1" THEN "SFPR1" ELSE "SFPR2"

E == <<>>
\* the colon records gpg prints for one key (--with-colons --with-fingerprint --fixed-list-mode)
KeyRecords(typ, k) ==
    << << <<IF typ = "public" THEN "pub" ELSE "sec">>, <<"u">>, <<"2048">>, <<"1">>, <<k>>,
          <<"1500000000">>, E, E, E, E >>,
       << <<"fpr">>, E, E, E, E, E, E, E, E, <<Fingerprint(k)>> >>,
       << <<"uid">>, <<"u">>, E, E, E, <<"1500000000">>, E, E, E, UserID(k) >>,
       << <<IF typ = "public" THEN "sub" ELSE "ssb">>, <<"u">>, <<"2048">>, <<"1">>,
          <<SubKeyID(k)>>, <<"1500000000">>, E, E, E, E >>,
       << <<"fpr">>, E, E, E, E, E, E, E, E, <<SubFingerprint(k)>> >> >>

RECURSIVE RenderKeys(_, _, _)
RenderKeys(typ, ring, i) ==
    IF i > Len(KeyOrder) THEN <<>>
    ELSE (IF KeyOrder[i] \in ring THEN KeyRecords(typ, KeyOrder[i]) ELSE <<>>)
         \o RenderKeys(typ, ring, i + 1)

\* the trust database record that precedes a non-empty public listing
TrustRecord == << <<"tru">>, E, <<"1">>, <<"1500000000">>, <<"0">>, <<"3">>, <<"1">>, <<"5">> >>

Ring(typ) == IF typ = "public" THEN pubring ELSE secring

Range(s) == {s[i] : i \in 1..Len(s)}

\* the keys a listing selects: all of the ring without search terms, else the matching ones
Selected(typ, search) ==
    IF Len(search) = 0 THEN Ring(typ) ELSE Ring(typ) \cap Range(search)

Listing(typ, ring) ==
    LET recs == RenderKeys(typ, ring, 1)
    IN  IF typ = "public" /\ Len(recs) > 0 THEN <<TrustRecord>> \o recs ELSE recs

\* the message gpg logs for a search term it cannot find; it reaches standard
\* output only when the user's gpg.conf routes the log there (logger-fd 1)
NotFoundMessage(typ) ==
    IF typ = "secret"
    THEN << << <<"gpg">>, <<"error", "reading", "key">>, <<"secret", "key", "not", "available">> >> >>
    ELSE << << <<"gpg">>, <<"error", "reading", "key">>, <<"public", "key", "not", "found">> >> >>

\* The runs `gpg --list-<typ>-keys search...` can take now: what it prints on
\* standard output, its exit status and why it ended so.
\*   ok:       every search term matched (or there was none); exit 0
\*   notfound: some search term matched nothing: the matching keys are printed,
\*             gpg exits 2
\*   killed:   the context was cancelled, or the process could not be started:
\*             nothing, or the listing printed so far
ListingRuns(typ, search) ==
    LET sel == Selected(typ, search)
        missing == Range(search) \ Ring(typ)
    IN  (IF missing = {}
         THEN {[out |-> Listing(typ, sel), exit |-> 0, cause |-> "ok"]}
         ELSE {[out |-> Listing(typ, sel) \o log, exit |-> 2, cause |-> "notfound"] :
                   log \in {<<>>, NotFoundMessage(typ)}})
        \cup {[out |-> o, exit |-> 2, cause |-> "killed"] : o \in {<<>>, Listing(typ, sel)}}

----------------------------------------------------------------------------
\* Parsing a listing into a key inventory

FieldAt(line, i) == IF i <= Len(line) THEN line[i] ELSE <<>>
Tag(line) == FieldAt(line, 1)

NewKey(typ, line) ==
    [keyType |-> typ, validity |-> FieldAt(line, 2), keyLength |-> FieldAt(line, 3),
     algorithm |-> FieldAt(line, 4), keyID |-> FieldAt(line, 5),
     creationDate |-> FieldAt(line, 6), expirationDate |-> FieldAt(line, 7),
     fingerprint |-> <<>>, identities |-> <<>>, subKeys |-> <<>>]

\* a user id without "<email>" falls through both patterns: it is the name
NewIdentity(line) ==
    [name |-> FieldAt(line, 10), comment |-> <<>>, email |-> <<>>,
     validity |-> FieldAt(line, 2)]

\* one record folded into the parse state: the keys so far and which record is open
ParseLine(typ, st, line) ==
    LET n == Len(st.keys)
        t == Tag(line)
    IN  IF t \in {<<"pub">>, <<"sec">>}
        THEN [keys |-> Append(st.keys, NewKey(typ, line)), open |-> "key"]
        ELSE IF t \in {<<"sub">>, <<"ssb">>}
        THEN IF n = 0 THEN st
             ELSE [keys |-> [st.keys EXCEPT ![n].subKeys = Append(@, NewKey(typ, line))],
                   open |-> "sub"]
        ELSE IF t = <<"fpr">>
        THEN IF st.open = "key"
             THEN [st EXCEPT !.keys[n].fingerprint = FieldAt(line, 10)]
             ELSE IF st.open = "sub"
             THEN [st EXCEPT !.keys[n].subKeys[Len(st.keys[n].subKeys)].fingerprint =
                                 FieldAt(line, 10)]
             ELSE st
        ELSE IF t = <<"uid">>
        THEN IF n = 0 THEN st
             ELSE [st EXCEPT !.keys[n].identities = Append(@, NewIdentity(line))]
        ELSE st

RECURSIVE ParseFrom(_, _, _, _)
ParseFrom(typ, st, out, i) ==
    IF i > Len(out) THEN st ELSE ParseFrom(typ, ParseLine(typ, st, out[i]), out, i + 1)

\* GPG.parseColons: never nil, also for an empty listing
parseColons(typ, out) ==
    MkKeyList(ParseFrom(typ, [keys |-> <<>>, open |-> "none"], out, 1).keys)

----------------------------------------------------------------------------
\* GPG.listKeys

SecretKeyNotAvailable == <<"secret", "key", "not", "available">>

\* bytes.Contains(out, needle): the needle holds no colon and no line break, so
\* it occurs in the output iff it occurs within one field
OutputContains(out, needle) ==
    \E i \in 1..Len(out) : \E j \in 1..Len(out[i]) : ContainsWords(out[i][j], needle)

\* what listKeys returns for a run of gpg
listKeys(typ, run) ==
    IF run.exit # 0
    THEN IF OutputContains(run.out, SecretKeyNotAvailable)
         THEN [kl |-> EmptyKeyList, err |-> NoErr]
         ELSE [kl |-> EmptyKeyList, err |-> ExitErr]
    ELSE [kl |-> parseColons(typ, run.out), err |-> NoErr]

----------------------------------------------------------------------------
\* The file system and the external gpg process: import and export

ImportPaths == {"in.asc", "sec.asc", "gone.asc"}
ExportPath == "out.asc"
Paths == ImportPaths \cup {ExportPath}

NoFile == [exists |-> FALSE, data |-> <<>>]
File(data) == [exists |-> TRUE, data |-> data]

\* key material: the armored blocks of a file or of gpg's output
Block(kind, k) == [kind |-> kind, key |-> k]
Armor(k) == <<Block("public", k)>>
\* output cut short when gpg is killed while it writes
Truncated(k) == <<Block("truncated", k)>>

KeysOf(data, kinds) == {data[i].key : i \in {j \in 1..Len(data) : data[j].kind \in kinds}}

\* The runs `gpg --import` can take on the given input: it imports the blocks
\* and exits 0, or exits 2 having imported nothing (no valid block in the
\* input, the context cancelled, the process not started).
ImportRuns(data) ==
    (IF KeysOf(data, {"public", "secret"}) # {}
     THEN {[exit |-> 0, pub |-> KeysOf(data, {"public", "secret"}), sec |-> KeysOf(data, {"secret"})]}
     ELSE {})
    \cup {[exit |-> 2, pub |-> {}, sec |-> {}]}

\* The runs `gpg --armor --export id` can take now: the armored key; nothing at
\* all when no such key exists (with either exit status, by gpg version); or
\* killed, having printed nothing or part of the key.
ExportRuns(id) ==
    (IF id \in pubring
     THEN {[out |-> Armor(id), exit |-> 0]}
     ELSE {[out |-> <<>>, exit |-> 0]})
    \cup {[out |-> o, exit |-> 2] : o \in {<<>>} \cup (IF id \in pubring THEN {Truncated(id)} ELSE {})}

\* ioutil.WriteFile: the file written; or not opened, and left as it was; or
\* opened, truncated, and the write failed
WriteOutcomes == {"ok", "openfail", "writefail"}
WriteFile(filename, out, outcome) ==
    IF outcome = "ok" THEN [files EXCEPT ![filename] = File(out)]
    ELSE IF outcome = "writefail" THEN [files EXCEPT ![filename] = File(<<>>)]
    ELSE files

----------------------------------------------------------------------------
\* The record of the last completed call

NoRun == [out |-> <<>>, exit |-> 0, cause |-> "none"]
NoDump == [out |-> <<>>, exit |-> 0]
NoExport == [out |-> <<>>, exit |-> 0]
NoCall ==
    [op |-> "none", typ |-> "none", search |-> <<>>, ninv |-> 0, run |-> NoRun,
     dump |-> NoDump, export |-> NoExport, kl |-> NilKeyList, recp |-> <<>>,
     err |-> NoErr, before |-> [pub |-> NilKeyList, priv |-> NilKeyList]]

\* a call of op entered now: the slots as it finds them
Call(op) == [NoCall EXCEPT !.op = op, !.before = [pub |-> pubKeys, priv |-> privKeys]]

----------------------------------------------------------------------------
\* The cached listings

\* faulty variant: the slot is tested with len(slot) == 0
CacheMiss_Len(slot) == Len(slot.keys) = 0

\* g.pubKeys == nil, g.privKeys == nil
CacheMiss(slot) == slot.nil

\* faulty variant: the inventory is returned and not stored
ListResult_NoStore(slot, r) ==
    IF r.err # NoErr
    THEN [slot |-> slot, kl |-> NilKeyList, err |-> r.err]
    ELSE [slot |-> slot, kl |-> r.kl, err |-> NoErr]

\* ListPublicKeys and ListPrivateKeys after the listing returned r: the slot as
\* it is left, and what is returned
ListResult(slot, r) ==
    IF r.err # NoErr
    THEN [slot |-> slot, kl |-> NilKeyList, err |-> r.err]
    ELSE [slot |-> r.kl, kl |-> r.kl, err |-> NoErr]

ListPublicKeys ==
    /\ IF CacheMiss(pubKeys)
       THEN \E run \in ListingRuns("public", <<>>) :
               LET res == ListResult(pubKeys, listKeys("public", run))
               IN  /\ pubKeys' = res.slot
                   /\ last' = [Call("ListPublicKeys") EXCEPT !.typ = "public",
                                             !.ninv = 1, !.run = run,
                                             !.kl = res.kl, !.err = res.err]
       ELSE /\ pubKeys' = pubKeys
            /\ last' = [Call("ListPublicKeys") EXCEPT !.typ = "public",
                                      !.kl = pubKeys]
    /\ UNCHANGED <<pubring, secring, files, packets, privKeys, th, hist>>

ListPrivateKeys ==
    /\ IF CacheMiss(privKeys)
       THEN \E run \in ListingRuns("secret", <<>>) :
               LET res == ListResult(privKeys, listKeys("secret", run))
               IN  /\ privKeys' = res.slot
                   /\ last' = [Call("ListPrivateKeys") EXCEPT !.typ = "secret",
                                             !.ninv = 1, !.run = run,
                                             !.kl = res.kl, !.err = res.err]
       ELSE /\ privKeys' = privKeys
            /\ last' = [Call("ListPrivateKeys") EXCEPT !.typ = "secret",
                                      !.kl = privKeys]
    /\ UNCHANGED <<pubring, secring, files, packets, pubKeys, th, hist>>

\* the search terms a caller passes: up to MaxTerms of them
Searches == SeqsUpTo(Terms, MaxTerms)

\* faulty variant: "TODO use cache" done for a search without terms
FindPublicKeys_Cached(search) ==
    /\ IF Len(search) = 0 /\ ~CacheMiss(pubKeys)
       THEN last' = [Call("FindPublicKeys") EXCEPT !.typ = "public", !.search = search,
                                                   !.kl = pubKeys]
       ELSE \E run \in ListingRuns("public", search) :
               LET r == listKeys("public", run)
               IN  last' = [Call("FindPublicKeys") EXCEPT !.typ = "public",
                                                          !.search = search, !.ninv = 1,
                                                          !.run = run, !.kl = r.kl,
                                                          !.err = r.err]
    /\ UNCHANGED <<pubring, secring, files, packets, pubKeys, privKeys, th, hist>>

FindPublicKeys(search) ==
    /\ \E run \in ListingRuns("public", search) :
          LET r == listKeys("public", run)
          IN  last' = [Call("FindPublicKeys") EXCEPT !.typ = "public",
                                     !.search = search, !.ninv = 1, !.run = run,
                                     !.kl = r.kl, !.err = r.err]
    /\ UNCHANGED <<pubring, secring, files, packets, pubKeys, privKeys, th, hist>>

FindPrivateKeys(search) ==
    /\ \E run \in ListingRuns("secret", search) :
          LET r == listKeys("secret", run)
          IN  last' = [Call("FindPrivateKeys") EXCEPT !.typ = "secret",
                                     !.search = search, !.ninv = 1, !.run = run,
                                     !.kl = r.kl, !.err = r.err]
    /\ UNCHANGED <<pubring, secring, files, packets, pubKeys, privKeys, th, hist>>

----------------------------------------------------------------------------
\* GPG.ImportPublicKey

\* faulty variant: only g.pubKeys is cleared
ClearKeyCache_PubOnly == [priv |-> privKeys, pub |-> NilKeyList]

\* "clear key cache"
ClearKeyCache == [priv |-> NilKeyList, pub |-> NilKeyList]

\* faulty variant: the slots are cleared before the error of cmd.Run is looked at
ImportResult_ClearAlways(exit) ==
    [priv |-> NilKeyList, pub |-> NilKeyList,
     err |-> IF exit # 0 THEN "failed to run command" ELSE NoErr]

\* after cmd.Run ended with the given exit status: the two slots as they are
\* left, and the error returned
ImportResult(exit) ==
    IF exit # 0
    THEN [priv |-> privKeys, pub |-> pubKeys, err |-> "failed to run command"]
    ELSE [priv |-> ClearKeyCache.priv, pub |-> ClearKeyCache.pub, err |-> NoErr]

ImportPublicKey(filename) ==
    IF ~files[filename].exists
    THEN /\ last' = [Call("ImportPublicKey") EXCEPT !.err = "failed to read file"]
         /\ UNCHANGED <<pubring, secring, files, packets, pubKeys, privKeys, th, hist>>
    ELSE \E run \in ImportRuns(files[filename].data) :
            LET res == ImportResult(run.exit)
            IN  /\ pubring' = pubring \cup run.pub
                /\ secring' = secring \cup run.sec
                /\ privKeys' = res.priv
                /\ pubKeys' = res.pub
                /\ last' = [Call("ImportPublicKey") EXCEPT !.ninv = 1,
                                          !.run = [NoRun EXCEPT !.exit = run.exit],
                                          !.err = res.err]
                /\ UNCHANGED <<files, packets, th, hist>>

----------------------------------------------------------------------------
\* GPG.ExportPublicKey

\* faulty variant: no check of len(out)
ExportDecision_NoEmptyCheck(run) ==
    IF run.exit # 0 THEN "failed to run command" ELSE "write"

\* what ExportPublicKey does with the output of a run: the error it returns
\* without writing, or "write"
ExportDecision(run) ==
    IF run.exit # 0 THEN "failed to run command"
    ELSE IF Len(run.out) < 1 THEN "Key not found"
    ELSE "write"

ExportPublicKey(id, filename) ==
    \E run \in ExportRuns(id) :
       LET d == ExportDecision(run)
       IN  /\ IF d = "write"
              THEN \E w \in WriteOutcomes :
                      /\ files' = WriteFile(filename, run.out, w)
                      /\ last' = [Call("ExportPublicKey") EXCEPT !.ninv = 1,
                                                !.export = run,
                                                !.err = IF w = "ok" THEN NoErr ELSE w]
              ELSE /\ files' = files
                   /\ last' = [Call("ExportPublicKey") EXCEPT !.ninv = 1,
                                             !.export = run, !.err = d]
           /\ UNCHANGED <<pubring, secring, packets, pubKeys, privKeys, th, hist>>

----------------------------------------------------------------------------
\* Packet dump text, and GPG.GetRecipients

SP == " "
TAB == "\t"
Marker == <<":", "pubkey", SP, "enc", SP, "packet", ":">>

\* the lines a packet dump (standard output and standard error together) is made of
PacketLines ==
    { Marker \o <<SP, "version", "=", "3", SP, "keyid", "=", "AAAA">>,
      <<TAB>> \o Marker \o <<SP, "keyid", "=", "BBBB", SP, "algo", "=", "1", SP>>,
      Marker \o <<SP, "version", SP, "3", ",", SP, "keyid", SP, "CCCC">>,
      <<":", "signature", SP, "packet", ":", SP, "keyid", "=", "DDDD">>,
      <<"gpg", ":", SP>> \o Marker \o <<SP, "keyid", "=", "EEEE">>,
      <<TAB, "data", ":", SP, "[", "2048", SP, "bits", "]">> }

IsSpace(c) == c \in {SP, TAB}

\* strings.TrimSpace
RECURSIVE TrimLeft(_)
TrimLeft(line) ==
    IF Len(line) > 0 /\ IsSpace(Head(line)) THEN TrimLeft(Tail(line)) ELSE line
RECURSIVE TrimRight(_)
TrimRight(line) ==
    IF Len(line) > 0 /\ IsSpace(line[Len(line)])
    THEN TrimRight(SubSeq(line, 1, Len(line) - 1))
    ELSE line
TrimSpace(line) == TrimRight(TrimLeft(line))

\* strings.HasPrefix
HasPrefix(line, prefix) ==
    Len(line) >= Len(prefix) /\ SubSeq(line, 1, Len(prefix)) = prefix

\* the index of the first c in s from i on, or Len(s) + 1
RECURSIVE IndexFrom(_, _, _)
IndexFrom(s, c, i) ==
    IF i > Len(s) \/ s[i] = c THEN i ELSE IndexFrom(s, c, i + 1)

\* strings.Split(s, " ")
RECURSIVE SplitSpace(_)
SplitSpace(s) ==
    LET i == IndexFrom(s, SP, 1)
    IN  IF i > Len(s) THEN <<s>>
        ELSE <<SubSeq(s, 1, i - 1)>> \o SplitSpace(SubSeq(s, i + 1, Len(s)))

\* splitPacket: the name=value tokens of a line, as a map from name to value;
\* tokens without "=" are ignored, a later token of the same name replaces an earlier
RECURSIVE PacketFields(_, _, _)
PacketFields(toks, i, m) ==
    IF i > Len(toks) THEN m
    ELSE LET t == toks[i]
             p == IndexFrom(t, "=", 1)
             name == SubSeq(t, 1, p - 1)
             value == SubSeq(t, p + 1, Len(t))
         IN  IF p > Len(t) THEN PacketFields(toks, i + 1, m)
             ELSE PacketFields(toks, i + 1,
                      [n \in DOMAIN m \cup {name} |-> IF n = name THEN value ELSE m[n]])
splitPacket(line) == PacketFields(SplitSpace(line), 1, [n \in {} |-> <<>>])

\* faulty variant: the line is not trimmed before the prefix is tested
RECURSIVE ScanFrom_NoTrim(_, _, _)
ScanFrom_NoTrim(out, i, recp) ==
    IF i > Len(out) THEN recp
    ELSE LET line == out[i]
         IN  IF ~HasPrefix(line, Marker) THEN ScanFrom_NoTrim(out, i + 1, recp)
             ELSE LET m == splitPacket(line)
                  IN  IF <<"keyid">> \in DOMAIN m
                      THEN ScanFrom_NoTrim(out, i + 1, Append(recp, m[<<"keyid">>]))
                      ELSE ScanFrom_NoTrim(out, i + 1, recp)

\* the scanner loop: the recipients collected from lines i.. onto recp
RECURSIVE ScanFrom(_, _, _)
ScanFrom(out, i, recp) ==
    IF i > Len(out) THEN recp
    ELSE LET line == TrimSpace(out[i])
         IN  IF ~HasPrefix(line, Marker) THEN ScanFrom(out, i + 1, recp)
             ELSE LET m == splitPacket(line)
                  IN  IF <<"keyid">> \in DOMAIN m
                      THEN ScanFrom(out, i + 1, Append(recp, m[<<"keyid">>]))
                      ELSE ScanFrom(out, i + 1, recp)

\* faulty variant: the output of a failed run is scanned all the same
GetRecipientsResult_ScansFailed(dump) ==
    [recp |-> ScanFrom(dump.out, 1, <<>>),
     err |-> IF dump.exit # 0 THEN ExitErr ELSE NoErr]

\* what GetRecipients returns for a run of gpg --list-packets
GetRecipientsResult(dump) ==
    IF dump.exit # 0
    THEN [recp |-> <<>>, err |-> ExitErr]
    ELSE [recp |-> ScanFrom(dump.out, 1, <<>>), err |-> NoErr]

GetRecipients ==
    /\ LET res == GetRecipientsResult(packets)
       IN  last' = [Call("GetRecipients") EXCEPT !.ninv = 1, !.dump = packets,
                                  !.recp = res.recp, !.err = res.err]
    /\ UNCHANGED <<pubring, secring, files, packets, pubKeys, privKeys, th, hist>>

----------------------------------------------------------------------------
\* Concurrent callers of one GPG instance.  Nothing in GPG guards pubKeys and
\* privKeys: a call is a sequence of steps, one per access to a slot or run of
\* gpg, and the steps of different callers interleave: a read that races with
\* a write sees the slot as it was before the write or as it is after it.

Threads == 1..NThreads

Idle ==
    [pc |-> "idle", op |-> "none", typ |-> "none", filename |-> "none",
     kl |-> NilKeyList, seen |-> 0, began |-> 0, ran |-> 0,
     ret |-> NilKeyList, retSeen |-> 0, err |-> NoErr]

Slot(typ) == IF typ = "public" THEN pubKeys ELSE privKeys

\* a caller enters ListPublicKeys or ListPrivateKeys
CallList(t, typ) ==
    /\ th[t].pc = "idle"
    /\ th' = [th EXCEPT ![t] = [Idle EXCEPT !.pc = "list_check", !.typ = typ,
                                            !.op = "List", !.began = hist.returned]]
    /\ UNCHANGED <<pubring, secring, files, packets, pubKeys, privKeys, last, hist>>

\* if g.pubKeys == nil
ListCheck(t) ==
    /\ th[t].pc = "list_check"
    /\ th' = [th EXCEPT ![t].pc = IF CacheMiss(Slot(th[t].typ)) THEN "list_invoke"
                                  ELSE "list_return"]
    /\ UNCHANGED <<pubring, secring, files, packets, pubKeys, privKeys, last, hist>>

\* kl, err := g.listKeys(ctx, typ); if err != nil { return nil, err }
ListInvoke(t) ==
    /\ th[t].pc = "list_invoke"
    /\ \E run \in ListingRuns(th[t].typ, <<>>) :
          LET r == listKeys(th[t].typ, run)
          IN  th' = [th EXCEPT ![t].kl = r.kl, ![t].seen = hist.ran, ![t].err = r.err,
                               ![t].pc = IF r.err # NoErr THEN "idle" ELSE "list_store"]
    /\ UNCHANGED <<pubring, secring, files, packets, pubKeys, privKeys, last, hist>>

\* g.pubKeys = kl
ListStore(t) ==
    /\ th[t].pc = "list_store"
    /\ IF th[t].typ = "public"
       THEN /\ pubKeys' = th[t].kl
            /\ hist' = [hist EXCEPT !.pub = th[t].seen]
            /\ UNCHANGED privKeys
       ELSE /\ privKeys' = th[t].kl
            /\ hist' = [hist EXCEPT !.priv = th[t].seen]
            /\ UNCHANGED pubKeys
    /\ th' = [th EXCEPT ![t].pc = "list_return"]
    /\ UNCHANGED <<pubring, secring, files, packets, last>>

\* return g.pubKeys, nil
ListReturn(t) ==
    /\ th[t].pc = "list_return"
    /\ th' = [th EXCEPT ![t].pc = "idle", ![t].ret = Slot(th[t].typ),
                        ![t].retSeen = IF th[t].typ = "public" THEN hist.pub ELSE hist.priv]
    /\ UNCHANGED <<pubring, secring, files, packets, pubKeys, privKeys, last, hist>>

\* a caller enters ImportPublicKey
CallImport(t, filename) ==
    /\ th[t].pc = "idle"
    /\ hist.started < MaxImports
    /\ th' = [th EXCEPT ![t] = [Idle EXCEPT !.pc = "import_read", !.op = "Import",
                                            !.filename = filename]]
    /\ hist' = [hist EXCEPT !.started = @ + 1]
    /\ UNCHANGED <<pubring, secring, files, packets, pubKeys, privKeys, last>>

\* buf, err := ioutil.ReadFile(filename)
ImportRead(t) ==
    /\ th[t].pc = "import_read"
    /\ th' = [th EXCEPT ![t].pc = IF files[th[t].filename].exists THEN "import_run" ELSE "idle",
                        ![t].err = IF files[th[t].filename].exists THEN NoErr
                                   ELSE "failed to read file"]
    /\ UNCHANGED <<pubring, secring, files, packets, pubKeys, privKeys, last, hist>>

\* cmd.Run()
ImportRun(t) ==
    /\ th[t].pc = "import_run"
    /\ \E run \in ImportRuns(files[th[t].filename].data) :
          /\ pubring' = pubring \cup run.pub
          /\ secring' = secring \cup run.sec
          /\ hist' = [hist EXCEPT !.ran = IF run.exit = 0 THEN @ + 1 ELSE @]
          /\ th' = [th EXCEPT ![t].pc = IF run.exit = 0 THEN "import_clear_priv" ELSE "idle",
                              ![t].ran = IF run.exit = 0 THEN hist.ran + 1 ELSE 0,
                              ![t].err = IF run.exit = 0 THEN NoErr
                                         ELSE "failed to run command"]
    /\ UNCHANGED <<files, packets, pubKeys, privKeys, last>>

\* g.privKeys = nil
ImportClearPriv(t) ==
    /\ th[t].pc = "import_clear_priv"
    /\ privKeys' = ClearKeyCache.priv
    /\ th' = [th EXCEPT ![t].pc = "import_clear_pub"]
    /\ UNCHANGED <<pubring, secring, files, packets, pubKeys, last, hist>>

\* g.pubKeys = nil
ImportClearPub(t) ==
    /\ th[t].pc = "import_clear_pub"
    /\ pubKeys' = ClearKeyCache.pub
    /\ th' = [th EXCEPT ![t].pc = "import_return"]
    /\ UNCHANGED <<pubring, secring, files, packets, privKeys, last, hist>>

\* return nil
ImportReturn(t) ==
    /\ th[t].pc = "import_return"
    /\ th' = [th EXCEPT ![t].pc = "idle"]
    /\ hist' = [hist EXCEPT !.returned = IF th[t].ran > @ THEN th[t].ran ELSE @]
    /\ UNCHANGED <<pubring, secring, files, packets, pubKeys, privKeys, last>>

----------------------------------------------------------------------------
\* Specifications

\* a dump of a message encrypted to two keys
TypicalDump ==
    [out |-> << Marker \o <<SP, "version", "=", "3", SP, "keyid", "=", "AAAA">>,
                <<TAB, "data", ":", SP, "[", "2048", SP, "bits", "]">>,
                <<TAB>> \o Marker \o <<SP, "keyid", "=", "BBBB", SP, "algo", "=", "1", SP>> >>,
     exit |-> 0]

PacketDumps == {[out |-> o, exit |-> e] : o \in SeqsUpTo(PacketLines, MaxLines), e \in {0, 2}}

\* New: both slots nil.  The keyring holds one public key and no secret key;
\* in.asc holds a public key, sec.asc two secret keys, gone.asc does not exist.
InitBut ==
    /\ pubring = {"K1"}
    /\ secring = {}
    /\ files = [p \in Paths |->
                  IF p = "in.asc" THEN File(Armor("K2"))
                  ELSE IF p = "sec.asc"
                  THEN File(<<Block("secret", "K1"), Block("secret", "K2")>>)
                  ELSE NoFile]
    /\ pubKeys = NilKeyList
    /\ privKeys = NilKeyList
    /\ last = NoCall
    /\ th = [t \in Threads |-> Idle]
    /\ hist = [started |-> 0, ran |-> 0, returned |-> 0, pub |-> 0, priv |-> 0]

Init == InitBut /\ packets = TypicalDump

\* one caller at a time, each call run to its end
Next ==
    \/ ListPublicKeys
    \/ ListPrivateKeys
    \/ \E search \in Searches : FindPublicKeys(search)
    \/ \E search \in Searches : FindPrivateKeys(search)
    \/ \E filename \in ImportPaths : ImportPublicKey(filename)
    \/ \E id \in Terms : ExportPublicKey(id, ExportPath)
    \/ GetRecipients

Spec == Init /\ [][Next]_vars

\* GetRecipients on every packet dump within the bounds
InitRecipients == InitBut /\ packets \in PacketDumps
NextRecipients == GetRecipients
SpecRecipients == InitRecipients /\ [][NextRecipients]_vars

\* concurrent callers
NextConcurrent ==
    \E t \in Threads :
       \/ \E typ \in {"public", "secret"} : CallList(t, typ)
       \/ ListCheck(t)
       \/ ListInvoke(t)
       \/ ListStore(t)
       \/ ListReturn(t)
       \/ \E filename \in ImportPaths : CallImport(t, filename)
       \/ ImportRead(t)
       \/ ImportRun(t)
       \/ ImportClearPriv(t)
       \/ ImportClearPub(t)
       \/ ImportReturn(t)

SpecConcurrent == Init /\ [][NextConcurrent]_vars

----------------------------------------------------------------------------
\* Properties of the cached listings (one caller at a time: Spec)

ListAllOps == {"ListPublicKeys", "ListPrivateKeys"}
SearchOps == {"FindPublicKeys", "FindPrivateKeys"}
SlotNow(typ) == IF typ = "public" THEN pubKeys ELSE privKeys
SlotBefore(typ) == IF typ = "public" THEN last.before.pub ELSE last.before.priv

\* the inventory of the listing gpg prints now for the given search
ListedNow(typ, search) == parseColons(typ, Listing(typ, Selected(typ, search)))

\* C1: a list-all call returns the inventory of its slot without running gpg
\* when the slot holds one; otherwise it runs the listing exactly once and,
\* the listing yielding an inventory, stores it in the slot and returns it
\* (a listing that yields an error stores nothing and returns the error).
C1_ListAllUsesCache ==
    last.op \in ListAllOps =>
        IF ~SlotBefore(last.typ).nil
        THEN /\ last.ninv = 0
             /\ last.err = NoErr
             /\ last.kl = SlotBefore(last.typ)
             /\ SlotNow(last.typ) = SlotBefore(last.typ)
        ELSE /\ last.ninv = 1
             /\ last.err = NoErr =>
                   /\ last.kl = SlotNow(last.typ)
                   /\ last.run.exit = 0 => SlotNow(last.typ) = ListedNow(last.typ, <<>>)
             /\ last.err # NoErr =>
                   /\ SlotNow(last.typ).nil
                   /\ last.kl.nil

\* a hit on a slot filled after an import: both keys, no run of gpg
C1_Witness ==
    /\ last.op = "ListPublicKeys"
    /\ last.ninv = 0
    /\ Len(last.kl.keys) = 2
    /\ last.kl = last.before.pub

ImportReturnedNil == last.op = "ImportPublicKey" /\ last.err = NoErr

\* C2: after a successful ImportPublicKey both slots are nil, whatever they
\* held and whatever was imported, and a ListPublicKeys call that follows runs
\* gpg and returns the inventory of the keyring as it is now.
C2_ImportClearsBoth ==
    /\ [](ImportReturnedNil => pubKeys.nil /\ privKeys.nil)
    /\ [][ImportReturnedNil /\ last'.op = "ListPublicKeys" =>
              /\ last'.ninv = 1
              /\ last'.run.exit = 0 =>
                    /\ last'.err = NoErr
                    /\ last'.kl = ListedNow("public", <<>>)]_vars

\* an import of a new key into an instance with both slots filled
C2_Witness ==
    /\ ImportReturnedNil
    /\ ~last.before.pub.nil
    /\ ~last.before.priv.nil
    /\ Len(last.before.pub.keys) < Cardinality(pubring)

\* C3 as claimed: of two ListPrivateKeys calls in a row the second returns what
\* the first returned and runs no gpg, whatever the first call's listing did.
C3_SecondCallAlwaysHits ==
    [][last.op = "ListPrivateKeys" /\ last'.op = "ListPrivateKeys" =>
           last'.ninv = 0 /\ last'.kl = last.kl]_vars

\* C3: a ListPrivateKeys call that returns no error leaves what it returned
\* in the slot, an empty inventory and the "secret key not available" case
\* included; only ImportPublicKey changes a filled slot; and a
\* ListPrivateKeys call on a filled slot returns the slot and runs no gpg.
C3_SecondCallHitsAfterSuccess ==
    /\ [](last.op = "ListPrivateKeys" /\ last.err = NoErr =>
              ~privKeys.nil /\ privKeys = last.kl)
    /\ [][~privKeys.nil /\ last'.op # "ImportPublicKey" => privKeys' = privKeys]_vars
    /\ [][~privKeys.nil /\ last'.op = "ListPrivateKeys" =>
              last'.ninv = 0 /\ last'.err = NoErr /\ last'.kl = privKeys]_vars

\* a hit on the empty inventory
C3_Witness ==
    /\ last.op = "ListPrivateKeys"
    /\ last.ninv = 0
    /\ last.kl = EmptyKeyList
    /\ last.before.priv = EmptyKeyList

\* C4: a search call always runs gpg, returns the inventory of what gpg
\* printed for the search, and writes neither slot, whatever the slots hold.
C4_SearchBypassesCache ==
    last.op \in SearchOps =>
        /\ last.ninv = 1
        /\ last.run \in ListingRuns(last.typ, last.search)
        /\ last.run.exit = 0 =>
              last.err = NoErr /\ last.kl = ListedNow(last.typ, last.search)
        /\ last.run.exit # 0 => Len(last.kl.keys) = 0
        /\ pubKeys = last.before.pub
        /\ privKeys = last.before.priv

\* a search on an instance whose slot is filled, returning something else
C4_Witness ==
    /\ last.op = "FindPublicKeys"
    /\ last.err = NoErr
    /\ ~last.before.pub.nil
    /\ Len(last.before.pub.keys) = 2
    /\ Len(last.kl.keys) = 1
    /\ pubKeys = last.before.pub

\* C5 as claimed: a listing run that fails is returned as an error, except a
\* secret listing that fails because no secret key matches.
C5_FailedListingSurfaced ==
    last.op \in ListAllOps \cup SearchOps /\ last.ninv = 1 /\ last.run.exit # 0 =>
        \/ last.err # NoErr
        \/ last.typ = "secret" /\ last.run.cause = "notfound"

\* C10: a call that returns an error leaves both slots as it found them.
C10_ErrorLeavesSlots ==
    last.err # NoErr => pubKeys = last.before.pub /\ privKeys = last.before.priv

\* an import whose gpg run failed, on an instance with both slots filled
C10_Witness ==
    /\ last.op = "ImportPublicKey"
    /\ last.err = "failed to run command"
    /\ ~pubKeys.nil
    /\ ~privKeys.nil

----------------------------------------------------------------------------
\* Properties of ExportPublicKey (Spec)

\* C8: ExportPublicKey writes the file only when gpg exited 0 with output.
\* A run that exits 0 with no output returns "Key not found", a run that
\* fails returns an error, and in both cases the file system is left as it was.
C8_ExportWritesOnlyOutput ==
    [][last'.op = "ExportPublicKey" =>
          /\ files' # files => last'.export.exit = 0 /\ Len(last'.export.out) > 0
          /\ last'.export.exit = 0 /\ Len(last'.export.out) = 0 =>
                last'.err = "Key not found" /\ files' = files
          /\ last'.export.exit # 0 => last'.err # NoErr /\ files' = files]_vars

\* an export of a key that does not exist, the file of an earlier export in place
C8_Witness ==
    /\ last.op = "ExportPublicKey"
    /\ last.err = "Key not found"
    /\ files[ExportPath] = File(Armor("K2"))

----------------------------------------------------------------------------
\* Properties of GetRecipients (every packet dump within the bounds:
\* SpecRecipients)

\* a line that names a recipient, and the recipient it names
NamesRecipient(line) ==
    HasPrefix(TrimSpace(line), Marker) /\ <<"keyid">> \in DOMAIN splitPacket(TrimSpace(line))
RecipientOf(line) == splitPacket(TrimSpace(line))[<<"keyid">>]

\* C6: when gpg exits 0, GetRecipients returns no error and exactly the keyid
\* values of the lines that, trimmed, begin with the marker and carry a keyid
\* field: one entry per such line, in line order, duplicates kept, nothing for
\* any other line.
C6_RecipientsInLineOrder ==
    last.op = "GetRecipients" /\ last.dump.exit = 0 =>
        LET out == last.dump.out
            named == {i \in 1..Len(out) : NamesRecipient(out[i])}
            rank(i) == Cardinality({j \in named : j <= i})
        IN  /\ last.err = NoErr
            /\ Len(last.recp) = Cardinality(named)
            /\ \A i \in named : last.recp[rank(i)] = RecipientOf(out[i])

\* the same recipient twice, around a line that names none
C6_Witness ==
    /\ last.op = "GetRecipients"
    /\ last.err = NoErr
    /\ Len(last.dump.out) = 3
    /\ ~NamesRecipient(last.dump.out[2])
    /\ last.recp = << <<"BBBB">>, <<"BBBB">> >>

\* C7 as claimed: a run that exits nonzero, or prints nothing, is returned as
\* an error.
C7_FailedOrSilentIsError ==
    last.op = "GetRecipients" /\ (last.dump.exit # 0 \/ Len(last.dump.out) = 0) =>
        last.err # NoErr

\* C7: a run that exits nonzero, whatever it printed, is returned as an error
\* with an empty list, none of its lines scanned; a run that exits 0 returns
\* no error, also when it printed nothing.
C7_FailedIsError ==
    last.op = "GetRecipients" =>
        /\ last.dump.exit # 0 => last.err # NoErr /\ last.recp = <<>>
        /\ last.dump.exit = 0 => last.err = NoErr

\* a failed run whose output names a recipient
C7_Witness ==
    /\ last.op = "GetRecipients"
    /\ last.dump.exit # 0
    /\ \E i \in 1..Len(last.dump.out) : NamesRecipient(last.dump.out[i])
    /\ last.err # NoErr

----------------------------------------------------------------------------
\* Properties of concurrent callers (SpecConcurrent)

\* C9 as claimed: once a successful import has returned, no slot holds an
\* inventory of a listing that ran before that import's gpg run, and no
\* list-all call entered after the return returns one.
C9_NoStaleInventoryAfterImport ==
    /\ ~pubKeys.nil => hist.pub >= hist.returned
    /\ ~privKeys.nil => hist.priv >= hist.returned
    /\ \A t \in Threads :
          th[t].op = "List" /\ th[t].pc = "idle" /\ ~th[t].ret.nil =>
              th[t].retSeen >= th[t].began

====
